---- MODULE Spec2Model ----
(***************************************************************************)
(* A model of the pdf2image HTTP service: validation of uploaded bytes,    *)
(* remote fetch, the conversion orchestrator with its storage_type x       *)
(* image_mode matrix, file persistence, and the HTTP handlers that turn    *)
(* results and exceptions into responses.                                  *)
(*                                                                         *)
(* Representation:                                                         *)
(*   bytes            sequences of integers 0..255                         *)
(*   str (base64)     sequences of base64 alphabet indices 0..63, 64 = '=' *)
(*   Optional[List]   record [present, items]                              *)
(*   exception        record [cls, error_code, message]                    *)
(*   message          sequence of string fragments (concatenation = \o)    *)
(*   file name        record [prefix, page, ts, uid, ext]                  *)
(*   path             record [parent, name]                                *)
(***************************************************************************)
EXTENDS Integers, Sequences, FiniteSets, TLC

(***************************************************************************)
(* Bounds of the model.                                                    *)
(***************************************************************************)
\* config.MAX_FILE_SIZE is read from the environment (default 50 MiB); the
\* model runs the service configured with a small limit.
MAX_FILE_SIZE == 6

\* Largest number of bytes following the (possibly damaged) header in the
\* byte sequences given to validate.
MaxFill == 3

\* Largest number of raster images the engine returns for one request.
MaxPages == 2

\* uuid4()[:8] values are drawn from 0..MaxUid.
MaxUid == 1

\* The clock (seconds) runs from 0 to MaxTime.
MaxTime == 1

(***************************************************************************)
(* Bytes and the PDF header.                                               *)
(***************************************************************************)
\* b'%PDF-'
PDF_MAGIC == <<37, 80, 68, 70, 45>>

Min(a, b) == IF a < b THEN a ELSE b

\* A startswith that compares only as many bytes as data has, so that a
\* proper prefix of pre counts as starting with it.
StartsWithTruncated(data, pre) ==
    SubSeq(data, 1, Min(Len(data), Len(pre))) = SubSeq(pre, 1, Min(Len(data), Len(pre)))

\* bytes.startswith
StartsWith(data, pre) ==
    /\ Len(data) >= Len(pre)
    /\ SubSeq(data, 1, Len(pre)) = pre

\* n bytes 'x', a byte that occurs nowhere in the header.
Fill(n) == [k \in 1..n |-> 120]

\* The first k bytes of the header, with byte c (when c > 0) damaged.
HeaderPrefix(k, c) ==
    [j \in 1..k |-> IF j = c THEN 120 ELSE PDF_MAGIC[j]]

\* Byte sequences handed to validate: a prefix of the header of any length,
\* intact or with one damaged byte, followed by 0..MaxFill more bytes.
ByteFamily ==
    { HeaderPrefix(k, c) \o Fill(n) :
        <<k, c, n>> \in { t \in (0..5) \X (0..5) \X (0..MaxFill) : t[2] <= t[1] } }

\* The uploads and response bodies of the service model: empty, a damaged
\* header, a valid short document, a valid document over the size limit,
\* and a non-PDF over the size limit.
PdfSamples ==
    { <<>>,
      HeaderPrefix(5, 1) \o Fill(1),
      PDF_MAGIC \o Fill(1),
      PDF_MAGIC \o Fill(MAX_FILE_SIZE),
      Fill(MAX_FILE_SIZE + 1) }

(***************************************************************************)
(* Exceptions.                                                             *)
(***************************************************************************)
NoErr == [cls |-> "", error_code |-> "", message |-> <<>>]

PDF2ImageException(message, error_code) ==
    [cls |-> "PDF2ImageException", error_code |-> error_code, message |-> message]

ConversionFailedException(message) ==
    [cls |-> "PDF2ImageException", error_code |-> "CONVERSION_FAILED", message |-> message]

PopplerNotInstalledException(message) ==
    [cls |-> "PDF2ImageException", error_code |-> "POPPLER_NOT_INSTALLED", message |-> message]

PDFCorruptedException(message) ==
    [cls |-> "PDF2ImageException", error_code |-> "PDF_CORRUPTED", message |-> message]

\* An exception raised by a library (engine, PIL, OS, httpx, pydantic).
ForeignException(cls, message) ==
    [cls |-> cls, error_code |-> "", message |-> message]

\* isinstance(e, PDF2ImageException)
IsDomain(e) == e.cls = "PDF2ImageException"

(***************************************************************************)
(* Validation.                                                             *)
(***************************************************************************)
\* validate_pdf_file with the header check moved before the size check.
validate_pdf_file_header_first(pdf_data) ==
    IF Len(pdf_data) = 0
    THEN PDF2ImageException(<<"file is empty">>, "EMPTY_FILE")
    ELSE IF ~StartsWith(pdf_data, PDF_MAGIC)
    THEN PDF2ImageException(<<"not a valid PDF file">>, "INVALID_PDF_FORMAT")
    ELSE IF Len(pdf_data) > MAX_FILE_SIZE
    THEN PDF2ImageException(<<"file size exceeds limit">>, "FILE_TOO_LARGE")
    ELSE NoErr

\* validate_pdf_file: NoErr when it returns, else the exception it raises.
validate_pdf_file(pdf_data) ==
    IF Len(pdf_data) = 0
    THEN PDF2ImageException(<<"file is empty">>, "EMPTY_FILE")
    ELSE IF Len(pdf_data) > MAX_FILE_SIZE
    THEN PDF2ImageException(<<"file size exceeds limit">>, "FILE_TOO_LARGE")
    ELSE IF ~StartsWith(pdf_data, PDF_MAGIC)
    THEN PDF2ImageException(<<"not a valid PDF file">>, "INVALID_PDF_FORMAT")
    ELSE NoErr

(***************************************************************************)
(* Optional lists.                                                         *)
(***************************************************************************)
\* None
NoneList == [present |-> FALSE, items |-> <<>>]

\* A list object.
SomeList(items) == [present |-> TRUE, items |-> items]

\* bool(x) of an Optional[List]: None and [] are falsy.
Truthy(x) == x.present /\ x.items # <<>>

(***************************************************************************)
(* Request options (models.ConversionRequest).                             *)
(***************************************************************************)
Formats == {"jpeg", "png", "ppm", "tiff"}

StorageTypes == {"base64", "file", "both"}

ImageModes == {"base64", "path"}

\* jpegopt: None, an empty dict, or a dict with an encoder option.
JpegOpts == {"None", "empty", "quality"}

\* bool(jpegopt)
JpegOptTruthy(jpegopt) == jpegopt = "quality"

\* The keyword arguments a jpegopt dict contributes to Image.save.
JpegOptItems(jpegopt) == IF jpegopt = "quality" THEN <<50>> ELSE <<>>

ConversionRequest ==
    [fmt : Formats, storage_type : StorageTypes, image_mode : ImageModes,
     jpegopt : JpegOpts]

\* The request before a handler has built one.
NoRequest ==
    [fmt |-> "png", storage_type |-> "base64", image_mode |-> "base64",
     jpegopt |-> "None"]

\* str.upper on the format names.
Upper(fmt) ==
    CASE fmt = "jpeg" -> "JPEG"
      [] fmt = "png"  -> "PNG"
      [] fmt = "ppm"  -> "PPM"
      [] fmt = "tiff" -> "TIFF"
      [] OTHER        -> fmt

(***************************************************************************)
(* The image encoder (PIL Image.save) and base64.                          *)
(***************************************************************************)
\* First byte of a file of the given PIL format.
FormatMagic(save_format) ==
    CASE save_format = "JPEG" -> 255
      [] save_format = "PNG"  -> 137
      [] save_format = "TIFF" -> 73
      [] OTHER                -> 80

\* Image.save(target, format=save_format, **kwargs): the encoded bytes are a
\* function of the image, the format and the encoder options.
ImageSave(img, save_format, kwargs) ==
    <<FormatMagic(save_format), img>> \o kwargs

\* '=' in the base64 alphabet.
B64Pad == 64

\* The four characters encoding bytes k+1..k+3 of data (fewer at the end).
B64Group(data, k) ==
    LET n  == Len(data) - k
        b1 == data[k + 1]
        b2 == IF n >= 2 THEN data[k + 2] ELSE 0
        b3 == IF n >= 3 THEN data[k + 3] ELSE 0
    IN  << b1 \div 4,
           (b1 % 4) * 16 + (b2 \div 16),
           IF n >= 2 THEN (b2 % 16) * 4 + (b3 \div 64) ELSE B64Pad,
           IF n >= 3 THEN b3 % 64 ELSE B64Pad >>

RECURSIVE B64EncodeFrom(_, _)
B64EncodeFrom(data, k) ==
    IF k >= Len(data) THEN <<>>
    ELSE B64Group(data, k) \o B64EncodeFrom(data, k + 3)

\* base64.b64encode(data).decode('utf-8')
b64encode(data) == B64EncodeFrom(data, 0)

\* The bytes encoded by characters k+1..k+4 of text.
B64Quad(text, k) ==
    LET c1 == text[k + 1]
        c2 == text[k + 2]
        c3 == text[k + 3]
        c4 == text[k + 4]
        b1 == c1 * 4 + (c2 \div 16)
        b2 == (c2 % 16) * 16 + (IF c3 = B64Pad THEN 0 ELSE c3 \div 4)
        b3 == (IF c3 = B64Pad THEN 0 ELSE (c3 % 4) * 64) + (IF c4 = B64Pad THEN 0 ELSE c4)
    IN  IF c3 = B64Pad THEN <<b1>>
        ELSE IF c4 = B64Pad THEN <<b1, b2>>
        ELSE <<b1, b2, b3>>

RECURSIVE B64DecodeFrom(_, _)
B64DecodeFrom(text, k) ==
    IF k + 4 > Len(text) THEN <<>>
    ELSE B64Quad(text, k) \o B64DecodeFrom(text, k + 4)

\* base64.b64decode(text)
b64decode(text) == B64DecodeFrom(text, 0)

(***************************************************************************)
(* Configuration (config.Config).                                          *)
(***************************************************************************)
\* Path(config.OUTPUT_DIR), as its components.
OUTPUT_DIR == <<"tmp", "pdf2image_output">>

OUTPUT_BASE_URL == "http://localhost:8000/files"

\* config.get_file_url
get_file_url(filename) == [base |-> OUTPUT_BASE_URL, filename |-> filename]

(***************************************************************************)
(* File names and paths.                                                   *)
(***************************************************************************)
\* A filename prefix is the sequence of '/'-separated components of the
\* string; the empty string is <<>>.

\* generate_filename numbering every file with the page number 1.
generate_filename_first_page(page_index, fmt, prefix, timestamp, unique_id) ==
    [prefix |-> prefix, sep |-> prefix # <<>>, page |-> 1,
     ts |-> timestamp, uid |-> unique_id, ext |-> fmt]

\* generate_filename leaving the uuid suffix out of the name.
generate_filename_no_suffix(page_index, fmt, prefix, timestamp, unique_id) ==
    IF prefix # <<>>
    THEN [prefix |-> prefix, sep |-> TRUE, page |-> page_index + 1,
          ts |-> timestamp, uid |-> 0, ext |-> fmt]
    ELSE [prefix |-> <<>>, sep |-> FALSE, page |-> page_index + 1,
          ts |-> timestamp, uid |-> 0, ext |-> fmt]

\* generate_filename; timestamp and unique_id are the values datetime.now()
\* and uuid4() produce during the call.
generate_filename(page_index, fmt, prefix, timestamp, unique_id) ==
    IF prefix # <<>>
    THEN [prefix |-> prefix, sep |-> TRUE, page |-> page_index + 1,
          ts |-> timestamp, uid |-> unique_id, ext |-> fmt]
    ELSE [prefix |-> <<>>, sep |-> FALSE, page |-> page_index + 1,
          ts |-> timestamp, uid |-> unique_id, ext |-> fmt]

\* The directory part a relative name adds to the directory it is joined to.
NameDirs(filename) ==
    IF Len(filename.prefix) > 1
    THEN SubSeq(filename.prefix, 1, Len(filename.prefix) - 1)
    ELSE <<>>

\* The last component of a name.
NameLeaf(filename) ==
    IF Len(filename.prefix) > 1
    THEN [filename EXCEPT !.prefix = <<filename.prefix[Len(filename.prefix)]>>]
    ELSE filename

\* pathlib: output_dir / filename
PathJoin(dir, filename) ==
    [parent |-> dir \o NameDirs(filename), name |-> NameLeaf(filename)]

\* Path.with_suffix
with_suffix(filepath, ext) == [filepath EXCEPT !.name.ext = ext]

(***************************************************************************)
(* The two delivery channels of convert_pdf_to_images.                     *)
(***************************************************************************)
\* An entry of base64_images: a base64 string or a filesystem path.
NoPath == PathJoin(<<>>, generate_filename(0, "", <<>>, 0, 0))

B64Item(text) == [kind |-> "base64", text |-> text, path |-> NoPath]

PathItem(filepath) == [kind |-> "path", text |-> <<>>, path |-> filepath]

\* services.py 164-166: the format the inline channel encodes to.
Base64SaveFormat(request) ==
    IF Upper(request.fmt) = "PPM" THEN "PNG" ELSE Upper(request.fmt)

\* services.py 169-171: the encoder options of the inline channel.
Base64SaveKwargs(request) ==
    IF request.fmt = "jpeg" /\ JpegOptTruthy(request.jpegopt)
    THEN JpegOptItems(request.jpegopt)
    ELSE <<>>

\* services.py 161-176: one page encoded for the inline channel.
Base64Page(img, request) ==
    b64encode(ImageSave(img, Base64SaveFormat(request), Base64SaveKwargs(request)))

\* The first loop entered only for storage_type 'base64'.
Base64LoopOnlyBase64(images, request) ==
    IF request.storage_type = "base64"
    THEN IF request.image_mode = "base64"
         THEN SomeList([k \in 1..Len(images) |-> B64Item(Base64Page(images[k], request))])
         ELSE IF Len(images) = 0 THEN SomeList(<<>>) ELSE NoneList
    ELSE NoneList

\* services.py 156-181: base64_images after the first loop.  In path mode
\* the first iteration resets the list to None and leaves the loop; with no
\* image there is no iteration and the fresh list stays.
Base64Loop(images, request) ==
    IF request.storage_type \in {"base64", "both"}
    THEN IF request.image_mode = "base64"
         THEN SomeList([k \in 1..Len(images) |-> B64Item(Base64Page(images[k], request))])
         ELSE IF Len(images) = 0 THEN SomeList(<<>>) ELSE NoneList
    ELSE NoneList

\* services.py 62-65: the format save_image_to_file encodes to.
FileSaveFormat(fmt) ==
    IF Upper(fmt) = "PPM" THEN "PNG" ELSE Upper(fmt)

\* services.py 62-65: the path save_image_to_file writes.
FileSavePath(filepath, fmt) ==
    IF Upper(fmt) = "PPM" THEN with_suffix(filepath, "png") ELSE filepath

\* The jpeg test made on the upper-cased format name: it never holds.
FileSaveKwargsUpperTest(fmt, jpegopt) ==
    IF Upper(fmt) = "jpeg" /\ JpegOptTruthy(jpegopt)
    THEN JpegOptItems(jpegopt)
    ELSE <<>>

\* services.py 68-70: the encoder options of save_image_to_file.
FileSaveKwargs(fmt, jpegopt) ==
    IF fmt = "jpeg" /\ JpegOptTruthy(jpegopt)
    THEN JpegOptItems(jpegopt)
    ELSE <<>>

\* save_image_to_file: the file it leaves on disk.
save_image_to_file(image, filepath, fmt, jpegopt) ==
    [path    |-> FileSavePath(filepath, fmt),
     content |-> ImageSave(image, FileSaveFormat(fmt), FileSaveKwargs(fmt, jpegopt))]

\* Writing a file replaces whatever was at its path.
DiskWrite(d, file) == { f \in d : f.path # file.path } \cup {file}

\* services.py 188-189
PathModeInit(base64_images, request) ==
    IF request.image_mode = "path" /\ ~Truthy(base64_images)
    THEN SomeList(<<>>)
    ELSE base64_images

(***************************************************************************)
(* Exception mapping.                                                      *)
(***************************************************************************)
EngineErrors ==
    {"PDFInfoNotInstalledError", "PDFPageCountError", "PDFSyntaxError",
     "PDFPopplerTimeoutError", "Exception"}

\* The except clauses of convert_pdf_to_images without the clause for
\* PDFPageCountError (as in get_pdf_info).
ConvertExceptNoPageCount(e) ==
    CASE e.cls = "PDFInfoNotInstalledError" ->
            PopplerNotInstalledException(<<"poppler is not installed">>)
      [] e.cls = "PDFSyntaxError" ->
            PDFCorruptedException(<<"PDF syntax error: ">> \o e.message)
      [] e.cls = "PDFPopplerTimeoutError" ->
            ConversionFailedException(<<"PDF conversion timed out">>)
      [] OTHER ->
            ConversionFailedException(<<"PDF conversion failed: ">> \o e.message)

\* services.py 208-217: the except clauses of convert_pdf_to_images.
ConvertExcept(e) ==
    CASE e.cls = "PDFInfoNotInstalledError" ->
            PopplerNotInstalledException(<<"poppler is not installed">>)
      [] e.cls = "PDFPageCountError" ->
            PDFCorruptedException(<<"PDF page count error: ">> \o e.message)
      [] e.cls = "PDFSyntaxError" ->
            PDFCorruptedException(<<"PDF syntax error: ">> \o e.message)
      [] e.cls = "PDFPopplerTimeoutError" ->
            ConversionFailedException(<<"PDF conversion timed out">>)
      [] OTHER ->
            ConversionFailedException(<<"PDF conversion failed: ">> \o e.message)

\* services.py 250-255: the except clauses of get_pdf_info.
InfoExcept(e) ==
    CASE e.cls = "PDFInfoNotInstalledError" ->
            PopplerNotInstalledException(<<"poppler is not installed">>)
      [] e.cls = "PDFSyntaxError" ->
            PDFCorruptedException(<<"PDF syntax error: ">> \o e.message)
      [] OTHER ->
            ConversionFailedException(<<"getting PDF info failed: ">> \o e.message)

\* services.py 96-101: the except clauses of download_pdf_from_url.
DownloadExcept(e) ==
    CASE e.cls = "TimeoutException" ->
            ConversionFailedException(<<"PDF download timed out">>)
      [] e.cls = "HTTPStatusError" ->
            ConversionFailedException(<<"PDF download failed: HTTP ">> \o e.message)
      [] OTHER ->
            ConversionFailedException(<<"PDF download failed: ">> \o e.message)

(***************************************************************************)
(* HTTP requests and responses.                                            *)
(***************************************************************************)
UploadEndpoints == {"convert", "convert_advanced", "info"}

ConvertEndpoints == {"convert", "convert_advanced", "convert_from_url"}

\* Names of uploaded files: the part before the extension (a prefix, which
\* may contain a path separator) and whether the name ends in .pdf.
UploadNames ==
    { [stem |-> <<"doc">>, pdf_ext |-> TRUE],
      [stem |-> <<"a", "doc">>, pdf_ext |-> TRUE],
      [stem |-> <<"doc">>, pdf_ext |-> FALSE] }

\* URLs: the stem of the last path component and whether the URL ends in
\* .pdf.
Urls ==
    { [stem |-> <<"doc">>, pdf_ext |-> TRUE],
      [stem |-> <<"doc">>, pdf_ext |-> FALSE],
      [stem |-> <<>>, pdf_ext |-> FALSE] }

NoName == [stem |-> <<>>, pdf_ext |-> FALSE]

NoInput ==
    [endpoint |-> "", name |-> NoName, body |-> <<>>, req |-> NoRequest,
     params_valid |-> TRUE]

NoResponse ==
    [kind |-> "", status_code |-> 0, success |-> FALSE, message |-> <<>>,
     error_code |-> "", pages_count |-> 0, images |-> NoneList,
     file_urls |-> NoneList]

\* main.py 157: pages_count computed from what the service returned.
PagesCount(b64, urls) ==
    IF Truthy(b64) THEN Len(b64.items)
    ELSE IF Truthy(urls) THEN Len(urls.items)
    ELSE 0

\* main.py 162-171
ConversionResponse(b64, urls) ==
    [kind |-> "ConversionResponse", status_code |-> 200, success |-> TRUE,
     message |-> <<"PDF converted">>, error_code |-> "",
     pages_count |-> PagesCount(b64, urls), images |-> b64, file_urls |-> urls]

\* main.py 340-344
PDFInfoResponse ==
    [kind |-> "PDFInfoResponse", status_code |-> 200, success |-> TRUE,
     message |-> <<"PDF info retrieved">>, error_code |-> "",
     pages_count |-> 0, images |-> NoneList, file_urls |-> NoneList]

\* JSONResponse(status_code, ErrorResponse(...).dict())
ErrorResponse(status_code, message, error_code) ==
    [kind |-> "ErrorResponse", status_code |-> status_code, success |-> FALSE,
     message |-> message, error_code |-> error_code,
     pages_count |-> 0, images |-> NoneList, file_urls |-> NoneList]

\* A handler with the generic except clause only: every exception is
\* answered 500 INTERNAL_ERROR.
HandlerExceptGenericOnly(e) ==
    ErrorResponse(500, <<"internal server error: ">> \o e.message, "INTERNAL_ERROR")

\* main.py 173-190: the except clauses of a handler.
HandlerExcept(e) ==
    IF IsDomain(e)
    THEN ErrorResponse(400, e.message, e.error_code)
    ELSE ErrorResponse(500, <<"internal server error: ">> \o e.message, "INTERNAL_ERROR")

\* No GET has been answered.
NoReply == [outcome |-> "", status |-> "", ctype_pdf |-> FALSE, body |-> <<>>]

(***************************************************************************)
(* State.                                                                  *)
(***************************************************************************)
VARIABLES
    config_storage,   \* config.OUTPUT_STORAGE_TYPE
    static_mounted,   \* whether /files is mounted on the output directory
    now,              \* the clock, in seconds
    disk,             \* the files in the filesystem: records [path, content]
    pc,               \* where the request being served is
    inp,              \* the HTTP request as received
    pdf_data,         \* the handler's pdf_data
    request,          \* the handler's ConversionRequest
    filename_prefix,  \* the handler's filename_prefix
    images,           \* convert_pdf_to_images: images
    base64_images,    \* convert_pdf_to_images: base64_images
    file_urls,        \* convert_pdf_to_images: file_urls
    idx,              \* convert_pdf_to_images: pages the second loop has done
    err,              \* the exception propagating out of the service, or NoErr
    response,         \* the HTTP response sent
    engine_log,       \* the invocations of the external engine, in order
    written,          \* the files this request has written, in order
    http_reply,       \* what the remote server answered to the GET of a fetch
    conv,             \* concurrent conversions: the locals of each one
    conv_log          \* concurrent conversions: the page writes made so far

vars ==
    <<config_storage, static_mounted, now, disk, pc, inp, pdf_data, request,
      filename_prefix, images, base64_images, file_urls, idx, err, response,
      engine_log, written, http_reply, conv, conv_log>>

cfg_vars == <<config_storage, static_mounted>>

local_vars == <<images, base64_images, file_urls, idx>>

conc_vars == <<conv, conv_log>>

(***************************************************************************)
(* Start-up.                                                               *)
(***************************************************************************)
\* main.py 51-54
MountStatic(storage) == storage \in {"file", "both"}

Init ==
    /\ config_storage \in StorageTypes
    /\ static_mounted = MountStatic(config_storage)
    /\ now = 0
    /\ disk = {}
    /\ pc = "idle"
    /\ inp = NoInput
    /\ pdf_data = <<>>
    /\ request = NoRequest
    /\ filename_prefix = <<>>
    /\ images = <<>>
    /\ base64_images = NoneList
    /\ file_urls = NoneList
    /\ idx = 0
    /\ err = NoErr
    /\ response = NoResponse
    /\ engine_log = <<>>
    /\ written = <<>>
    /\ http_reply = NoReply
    /\ conv = <<>>
    /\ conv_log = {}

\* A second of wall-clock time passes.
Tick ==
    /\ now < MaxTime
    /\ now' = now + 1
    /\ UNCHANGED <<cfg_vars, conc_vars, http_reply, disk, pc, inp, pdf_data, request, filename_prefix,
                   local_vars, err, response, engine_log, written>>

(***************************************************************************)
(* Arrival of a request.                                                   *)
(***************************************************************************)
\* A client uploads a file to /convert, /convert-advanced or /info.  The
\* query parameters of /convert carry no jpegopt and may be out of range.
ReceiveUpload ==
    /\ pc = "idle"
    /\ \E ep \in UploadEndpoints, name \in UploadNames, body \in PdfSamples,
          req \in ConversionRequest, ok \in BOOLEAN :
          /\ ep = "convert" => req.jpegopt = "None"
          /\ ep = "info" => req = NoRequest
          /\ ep # "convert" => ok
          /\ inp' = [endpoint |-> ep, name |-> name, body |-> body, req |-> req,
                     params_valid |-> ok]
    /\ pc' = "validate_file"
    /\ UNCHANGED <<cfg_vars, conc_vars, http_reply, now, disk, pdf_data, request, filename_prefix,
                   local_vars, err, response, engine_log, written>>

\* A client posts a URLConversionRequest to /convert-from-url.
ReceiveUrl ==
    /\ pc = "idle"
    /\ \E url \in Urls, req \in ConversionRequest :
          inp' = [endpoint |-> "convert_from_url", name |-> url, body |-> <<>>,
                  req |-> req, params_valid |-> TRUE]
    /\ pc' = "handler"
    /\ UNCHANGED <<cfg_vars, conc_vars, http_reply, now, disk, pdf_data, request, filename_prefix,
                   local_vars, err, response, engine_log, written>>

(***************************************************************************)
(* The handlers up to the call of the service.                             *)
(***************************************************************************)
\* main.py 57-61 validate_file, and http_exception_handler for its
\* HTTPException.
ValidateFile ==
    /\ pc = "validate_file"
    /\ IF inp.name.pdf_ext
       THEN /\ pc' = "handler"
            /\ UNCHANGED response
       ELSE /\ response' = ErrorResponse(400, <<"only PDF files are supported">>, "HTTP_ERROR")
            /\ pc' = "done"
    /\ UNCHANGED <<cfg_vars, conc_vars, http_reply, now, disk, inp, pdf_data, request, filename_prefix,
                   local_vars, err, engine_log, written>>

\* main.py 128-153: /convert reads the upload, builds the ConversionRequest
\* (pydantic rejects out-of-range parameters) and derives the prefix.
HandlerConvert ==
    /\ pc = "handler"
    /\ inp.endpoint = "convert"
    /\ pdf_data' = inp.body
    /\ IF inp.params_valid
       THEN /\ request' = inp.req
            /\ filename_prefix' = inp.name.stem
            /\ pc' = "validate"
            /\ UNCHANGED err
       ELSE /\ err' = ForeignException("ValidationError", <<"validation error for ConversionRequest">>)
            /\ pc' = "respond"
            /\ UNCHANGED <<request, filename_prefix>>
    /\ UNCHANGED <<cfg_vars, conc_vars, http_reply, now, disk, inp, local_vars, response, engine_log, written>>

\* main.py 211-217: /convert-advanced.
HandlerAdvanced ==
    /\ pc = "handler"
    /\ inp.endpoint = "convert_advanced"
    /\ pdf_data' = inp.body
    /\ request' = inp.req
    /\ filename_prefix' = inp.name.stem
    /\ pc' = "validate"
    /\ UNCHANGED <<cfg_vars, conc_vars, http_reply, now, disk, inp, local_vars, err, response, engine_log, written>>

\* main.py 333-338: /info.
HandlerInfo ==
    /\ pc = "handler"
    /\ inp.endpoint = "info"
    /\ pdf_data' = inp.body
    /\ pc' = "info"
    /\ UNCHANGED <<cfg_vars, conc_vars, http_reply, now, disk, inp, request, filename_prefix, local_vars,
                   err, response, engine_log, written>>

\* What the remote server does with the GET: no answer in time, a non-2xx
\* status, a transport error, or a 2xx answer with a content type and a body.
RepliesOver(bodies) ==
    [outcome : {"timeout", "transport"}, status : {""}, ctype_pdf : {FALSE}, body : {<<>>}]
    \cup [outcome : {"status"}, status : {"404", "500"}, ctype_pdf : {FALSE}, body : {<<>>}]
    \cup [outcome : {"ok"}, status : {"200"}, ctype_pdf : BOOLEAN, body : bodies]

Replies == RepliesOver(PdfSamples)

\* download_pdf_from_url sniffing the body as soon as either the content
\* type or the URL fails to say PDF.
download_pdf_from_url_either(url, reply) ==
    CASE reply.outcome = "timeout" ->
            DownloadExcept(ForeignException("TimeoutException", <<"timed out">>))
      [] reply.outcome = "status" ->
            DownloadExcept(ForeignException("HTTPStatusError", <<reply.status>>))
      [] reply.outcome = "transport" ->
            DownloadExcept(ForeignException("ConnectError", <<"connection failed">>))
      [] OTHER ->
            IF /\ (~reply.ctype_pdf \/ ~url.pdf_ext)
               /\ ~StartsWith(reply.body, PDF_MAGIC)
            THEN DownloadExcept(ConversionFailedException(<<"URL did not return a valid PDF file">>))
            ELSE NoErr

\* services.py 79-101 download_pdf_from_url: the exception it raises, NoErr
\* when it returns reply.body.
download_pdf_from_url(url, reply) ==
    CASE reply.outcome = "timeout" ->
            DownloadExcept(ForeignException("TimeoutException", <<"timed out">>))
      [] reply.outcome = "status" ->
            DownloadExcept(ForeignException("HTTPStatusError", <<reply.status>>))
      [] reply.outcome = "transport" ->
            DownloadExcept(ForeignException("ConnectError", <<"connection failed">>))
      [] OTHER ->
            IF /\ ~reply.ctype_pdf
               /\ ~url.pdf_ext
               /\ ~StartsWith(reply.body, PDF_MAGIC)
            THEN DownloadExcept(ConversionFailedException(<<"URL did not return a valid PDF file">>))
            ELSE NoErr

\* main.py 278: Path(parsed_url.path).stem or "url_pdf"
UrlPrefix(url) == IF url.stem # <<>> THEN url.stem ELSE <<"url_pdf">>

\* main.py 271-280: /convert-from-url downloads the document and derives
\* the prefix from the URL.
HandlerUrl ==
    /\ pc = "handler"
    /\ inp.endpoint = "convert_from_url"
    /\ \E r \in Replies :
          LET e == download_pdf_from_url(inp.name, r)
          IN  /\ http_reply' = r
              /\ IF e = NoErr
                 THEN /\ pdf_data' = r.body
                      /\ request' = inp.req
                      /\ filename_prefix' = UrlPrefix(inp.name)
                      /\ pc' = "validate"
                      /\ UNCHANGED err
                 ELSE /\ err' = e
                      /\ pc' = "respond"
                      /\ UNCHANGED <<pdf_data, request, filename_prefix>>
    /\ UNCHANGED <<cfg_vars, conc_vars, now, disk, inp, local_vars, response, engine_log, written>>

(***************************************************************************)
(* PDFConverterService.convert_pdf_to_images.                              *)
(***************************************************************************)
\* convert_pdf_to_images without the call of validate_pdf_file.
ConvertValidateSkipped ==
    /\ pc = "validate"
    /\ pc' = "render"
    /\ UNCHANGED <<cfg_vars, conc_vars, http_reply, now, disk, inp, pdf_data, request, filename_prefix,
                   local_vars, err, response, engine_log, written>>

\* services.py 116-117 with the except clauses 208-217: validation runs
\* inside the try block.
ConvertValidate ==
    /\ pc = "validate"
    /\ LET e == validate_pdf_file(pdf_data)
       IN  IF e = NoErr
           THEN /\ pc' = "render"
                /\ UNCHANGED err
           ELSE /\ err' = ConvertExcept(e)
                /\ pc' = "respond"
    /\ UNCHANGED <<cfg_vars, conc_vars, http_reply, now, disk, inp, pdf_data, request, filename_prefix,
                   local_vars, response, engine_log, written>>

\* An invocation of the engine: the operation, the bytes passed, and "ok" or
\* the class of the exception it raised.
EngineCall(op, data, outcome) == [op |-> op, pdf |-> data, outcome |-> outcome]

\* The engine returns the pages first..first+n-1 as images, in order.
EngineImages(first, n) == [k \in 1..n |-> first + k - 1]

\* services.py 119-147: the single call of convert_from_bytes; it returns
\* the images of the requested pages or raises.
ConvertRender ==
    /\ pc = "render"
    /\ \/ \E first \in 1..2, n \in 0..MaxPages :
             /\ engine_log' = Append(engine_log, EngineCall("render", pdf_data, "ok"))
             /\ images' = EngineImages(first, n)
             /\ pc' = "base64"
             /\ UNCHANGED err
       \/ \E cls \in EngineErrors :
             /\ engine_log' = Append(engine_log, EngineCall("render", pdf_data, cls))
             /\ err' = ConvertExcept(ForeignException(cls, <<"engine message">>))
             /\ pc' = "respond"
             /\ UNCHANGED images
    /\ UNCHANGED <<cfg_vars, conc_vars, http_reply, now, disk, inp, pdf_data, request, filename_prefix,
                   base64_images, file_urls, idx, response, written>>

\* services.py 149-181: the inline channel.  Image.save may raise for an
\* image it cannot encode.
ConvertBase64 ==
    /\ pc = "base64"
    /\ \/ /\ base64_images' = Base64Loop(images, request)
          /\ pc' = IF request.storage_type \in {"file", "both"} THEN "ensure_dir" ELSE "return"
          /\ UNCHANGED err
       \/ /\ request.storage_type \in {"base64", "both"}
          /\ request.image_mode = "base64"
          /\ Len(images) > 0
          /\ err' = ConvertExcept(ForeignException("OSError", <<"cannot write mode">>))
          /\ pc' = "respond"
          /\ UNCHANGED base64_images
    /\ UNCHANGED <<cfg_vars, conc_vars, http_reply, now, disk, inp, pdf_data, request, filename_prefix,
                   images, file_urls, idx, response, engine_log, written>>

\* services.py 183-189: file_urls starts empty, the output directory is
\* created if missing (which may fail), path mode starts its list.
ConvertEnsureDir ==
    /\ pc = "ensure_dir"
    /\ \/ /\ file_urls' = SomeList(<<>>)
          /\ base64_images' = PathModeInit(base64_images, request)
          /\ idx' = 0
          /\ pc' = "save"
          /\ UNCHANGED err
       \/ /\ err' = ConvertExcept(ForeignException("OSError", <<"cannot create directory">>))
          /\ pc' = "respond"
          /\ UNCHANGED <<base64_images, file_urls, idx>>
    /\ UNCHANGED <<cfg_vars, conc_vars, http_reply, now, disk, inp, pdf_data, request, filename_prefix,
                   images, response, engine_log, written>>

\* A file whose write was interrupted: the path exists, the content is cut.
PartialFile(file) == [path |-> file.path, content |-> <<>>]

\* The second loop removing the files of the earlier pages when the write
\* of a page fails.
ConvertSavePageCleanup ==
    /\ pc = "save"
    /\ idx < Len(images)
    /\ \E uid \in 0..MaxUid :
          LET filename == generate_filename(idx, request.fmt, filename_prefix, now, uid)
              filepath == PathJoin(OUTPUT_DIR, filename)
              file     == save_image_to_file(images[idx + 1], filepath, request.fmt, request.jpegopt)
          IN  \/ /\ disk' = DiskWrite(disk, file)
                 /\ written' = Append(written, file)
                 /\ file_urls' = SomeList(Append(file_urls.items, get_file_url(filename)))
                 /\ base64_images' =
                       IF request.image_mode = "path"
                       THEN SomeList(Append(base64_images.items, PathItem(filepath)))
                       ELSE base64_images
                 /\ idx' = idx + 1
                 /\ UNCHANGED <<pc, err>>
              \/ /\ err' = ConvertExcept(ConversionFailedException(
                                <<"saving image file failed: ", "OSError">>))
                 /\ pc' = "respond"
                 /\ disk' = { f \in disk : \A k \in 1..Len(written) : f # written[k] }
                 /\ UNCHANGED <<written, file_urls, base64_images, idx>>
    /\ UNCHANGED <<cfg_vars, conc_vars, http_reply, now, inp, pdf_data, request, filename_prefix, images,
                   response, engine_log>>

\* services.py 191-204: one iteration of the second loop.  The write may
\* fail: save_image_to_file raises ConversionFailedException (line 76),
\* which the except clause of line 216 wraps again.  A failed write leaves
\* no file or a cut one at the path of the page, depending on where
\* Image.save stopped.
ConvertSavePage ==
    /\ pc = "save"
    /\ idx < Len(images)
    /\ \E uid \in 0..MaxUid :
          LET filename == generate_filename(idx, request.fmt, filename_prefix, now, uid)
              filepath == PathJoin(OUTPUT_DIR, filename)
              file     == save_image_to_file(images[idx + 1], filepath, request.fmt, request.jpegopt)
          IN  \/ /\ disk' = DiskWrite(disk, file)
                 /\ written' = Append(written, file)
                 /\ file_urls' = SomeList(Append(file_urls.items, get_file_url(filename)))
                 /\ base64_images' =
                       IF request.image_mode = "path"
                       THEN SomeList(Append(base64_images.items, PathItem(filepath)))
                       ELSE base64_images
                 /\ idx' = idx + 1
                 /\ UNCHANGED <<pc, err>>
              \/ /\ err' = ConvertExcept(ConversionFailedException(
                                <<"saving image file failed: ", "OSError">>))
                 /\ pc' = "respond"
                 /\ \E cut \in BOOLEAN :
                       disk' = IF cut THEN DiskWrite(disk, PartialFile(file)) ELSE disk
                 /\ UNCHANGED <<written, file_urls, base64_images, idx>>
    /\ UNCHANGED <<cfg_vars, conc_vars, http_reply, now, inp, pdf_data, request, filename_prefix, images,
                   response, engine_log>>

\* services.py 206: the second loop is over, the two lists are returned.
ConvertReturn ==
    /\ \/ pc = "return"
       \/ pc = "save" /\ idx = Len(images)
    /\ pc' = "respond"
    /\ UNCHANGED <<cfg_vars, conc_vars, http_reply, now, disk, inp, pdf_data, request, filename_prefix,
                   local_vars, err, response, engine_log, written>>

(***************************************************************************)
(* PDFConverterService.get_pdf_info.                                       *)
(***************************************************************************)
\* services.py 230-255: validation, then one call of pdfinfo_from_bytes.
GetPdfInfo ==
    /\ pc = "info"
    /\ LET e == validate_pdf_file(pdf_data)
       IN  IF e # NoErr
           THEN /\ err' = InfoExcept(e)
                /\ UNCHANGED engine_log
           ELSE \/ /\ engine_log' = Append(engine_log, EngineCall("inspect", pdf_data, "ok"))
                   /\ UNCHANGED err
                \/ \E cls \in EngineErrors :
                      /\ engine_log' = Append(engine_log, EngineCall("inspect", pdf_data, cls))
                      /\ err' = InfoExcept(ForeignException(cls, <<"engine message">>))
    /\ pc' = "respond"
    /\ UNCHANGED <<cfg_vars, conc_vars, http_reply, now, disk, inp, pdf_data, request, filename_prefix,
                   local_vars, response, written>>

(***************************************************************************)
(* The handlers after the call of the service.                             *)
(***************************************************************************)
\* main.py 156-190 (and the same lines of the other three handlers): the
\* success response, or the response of the except clause that matches.
Respond ==
    /\ pc = "respond"
    /\ response' =
          IF err # NoErr THEN HandlerExcept(err)
          ELSE IF inp.endpoint = "info" THEN PDFInfoResponse
          ELSE ConversionResponse(base64_images, file_urls)
    /\ pc' = "done"
    /\ UNCHANGED <<cfg_vars, conc_vars, http_reply, now, disk, inp, pdf_data, request, filename_prefix,
                   local_vars, err, engine_log, written>>

Next ==
    \/ Tick
    \/ ReceiveUpload
    \/ ReceiveUrl
    \/ ValidateFile
    \/ HandlerConvert
    \/ HandlerAdvanced
    \/ HandlerInfo
    \/ HandlerUrl
    \/ ConvertValidate
    \/ ConvertRender
    \/ ConvertBase64
    \/ ConvertEnsureDir
    \/ ConvertSavePage
    \/ ConvertReturn
    \/ GetPdfInfo
    \/ Respond

Spec == Init /\ [][Next]_vars

\* The steps of the service's own code.  A handler is sequential code whose
\* waits are bounded (the fetch and the engine by their timeouts), so a
\* request that has arrived keeps being served.
Serve ==
    \/ ValidateFile
    \/ HandlerConvert
    \/ HandlerAdvanced
    \/ HandlerInfo
    \/ HandlerUrl
    \/ ConvertValidate
    \/ ConvertRender
    \/ ConvertBase64
    \/ ConvertEnsureDir
    \/ ConvertSavePage
    \/ ConvertReturn
    \/ GetPdfInfo
    \/ Respond

SpecFair == Spec /\ WF_vars(Serve)

(***************************************************************************)
(* validate_pdf_file on its own: every byte sequence of ByteFamily is      *)
(* validated once.                                                         *)
(***************************************************************************)
InitValidate ==
    /\ config_storage = "file"
    /\ static_mounted = MountStatic(config_storage)
    /\ now = 0
    /\ disk = {}
    /\ pc = "v_call"
    /\ pdf_data \in ByteFamily
    /\ inp = [NoInput EXCEPT !.body = pdf_data]
    /\ request = NoRequest
    /\ filename_prefix = <<>>
    /\ images = <<>>
    /\ base64_images = NoneList
    /\ file_urls = NoneList
    /\ idx = 0
    /\ err = NoErr
    /\ response = NoResponse
    /\ engine_log = <<>>
    /\ written = <<>>
    /\ http_reply = NoReply
    /\ conv = <<>>
    /\ conv_log = {}

\* One call validate_pdf_file(pdf_data); err records what it raised.
ValidateCall ==
    /\ pc = "v_call"
    /\ err' = validate_pdf_file(pdf_data)
    /\ pc' = "v_done"
    /\ UNCHANGED <<cfg_vars, conc_vars, http_reply, now, disk, inp, pdf_data, request, filename_prefix,
                   local_vars, response, engine_log, written>>

NextValidate == ValidateCall

SpecValidate == InitValidate /\ [][NextValidate]_vars

(***************************************************************************)
(* download_pdf_from_url on its own: one GET of each URL, answered in each *)
(* way, the bodies ranging over ByteFamily.                                *)
(***************************************************************************)
InitFetch ==
    /\ config_storage = "file"
    /\ static_mounted = MountStatic(config_storage)
    /\ now = 0
    /\ disk = {}
    /\ pc = "f_call"
    /\ pdf_data = <<>>
    /\ \E url \in Urls :
          inp = [NoInput EXCEPT !.endpoint = "convert_from_url", !.name = url]
    /\ http_reply \in RepliesOver(ByteFamily)
    /\ request = NoRequest
    /\ filename_prefix = <<>>
    /\ images = <<>>
    /\ base64_images = NoneList
    /\ file_urls = NoneList
    /\ idx = 0
    /\ err = NoErr
    /\ response = NoResponse
    /\ engine_log = <<>>
    /\ written = <<>>
    /\ conv = <<>>
    /\ conv_log = {}

\* One call download_pdf_from_url(url, timeout): pdf_data is what it
\* returned, err what it raised.
FetchCall ==
    /\ pc = "f_call"
    /\ LET e == download_pdf_from_url(inp.name, http_reply)
       IN  /\ err' = e
           /\ pdf_data' = IF e = NoErr THEN http_reply.body ELSE pdf_data
    /\ pc' = "f_done"
    /\ UNCHANGED <<cfg_vars, conc_vars, http_reply, now, disk, inp, request,
                   filename_prefix, local_vars, response, engine_log, written>>

NextFetch == FetchCall

SpecFetch == InitFetch /\ [][NextFetch]_vars

(***************************************************************************)
(* Concurrent conversions: two calls of convert_pdf_to_images with a file  *)
(* storage type, each at the start of its second loop (services.py 191),   *)
(* sharing the output directory and the clock.  Their page writes          *)
(* interleave in every order.                                              *)
(***************************************************************************)
Workers == 1..2

\* The state of one conversion in its second loop.
Conversion(prefix, fmt, first, n) ==
    [prefix |-> prefix, fmt |-> fmt, images |-> EngineImages(first, n), idx |-> 0]

\* One page write: who wrote which page to which path, with the second and
\* the suffix generate_filename drew.
WriteEvent(w, page_index, timestamp, unique_id, file) ==
    [worker |-> w, page |-> page_index + 1, ts |-> timestamp, uid |-> unique_id,
     path |-> file.path, content |-> file.content]

InitConc ==
    /\ config_storage = "file"
    /\ static_mounted = MountStatic(config_storage)
    /\ now = 0
    /\ disk = {}
    /\ pc = "conc"
    /\ \E n1 \in 1..MaxPages, n2 \in 1..MaxPages,
          prefix2 \in {<<>>, <<"doc">>}, fmt2 \in {"png", "ppm"} :
          conv = <<Conversion(<<"doc">>, "png", 1, n1),
                   Conversion(prefix2, fmt2, 2, n2)>>
    /\ conv_log = {}
    /\ inp = NoInput
    /\ pdf_data = <<>>
    /\ http_reply = NoReply
    /\ request = NoRequest
    /\ filename_prefix = <<>>
    /\ images = <<>>
    /\ base64_images = NoneList
    /\ file_urls = NoneList
    /\ idx = 0
    /\ err = NoErr
    /\ response = NoResponse
    /\ engine_log = <<>>
    /\ written = <<>>

\* services.py 191-196: conversion w names and writes its next page.
ConcSavePage(w) ==
    /\ pc = "conc"
    /\ conv[w].idx < Len(conv[w].images)
    /\ \E uid \in 0..MaxUid :
          LET c        == conv[w]
              filename == generate_filename(c.idx, c.fmt, c.prefix, now, uid)
              filepath == PathJoin(OUTPUT_DIR, filename)
              file     == save_image_to_file(c.images[c.idx + 1], filepath, c.fmt, "None")
          IN  /\ disk' = DiskWrite(disk, file)
              /\ conv_log' = conv_log \cup {WriteEvent(w, c.idx, now, uid, file)}
              /\ conv' = [conv EXCEPT ![w].idx = c.idx + 1]
    /\ UNCHANGED <<cfg_vars, http_reply, now, pc, inp, pdf_data, request,
                   filename_prefix, local_vars, err, response, engine_log, written>>

NextConc ==
    \/ Tick
    \/ \E w \in Workers : ConcSavePage(w)

SpecConc == InitConc /\ [][NextConc]_vars

(***************************************************************************)
(* Vocabulary of the properties.                                           *)
(***************************************************************************)
\* The handler has called convert_pdf_to_images (the prefix is set exactly
\* when a conversion handler reaches the call).
ConvertCalled ==
    \/ pc \in {"validate", "render", "base64", "ensure_dir", "save", "return"}
    \/ /\ pc \in {"respond", "done"}
       /\ inp.endpoint \in ConvertEndpoints
       /\ filename_prefix # <<>>

\* The request ended with a successful conversion response.
ConvertSucceeded == pc = "done" /\ response.kind = "ConversionResponse"

\* The first five bytes of data are not %PDF-.
HeaderDiffers(data) == \E j \in 1..5 : j > Len(data) \/ data[j] # PDF_MAGIC[j]

\* The files this request has persisted.
Persisted == { written[k] : k \in 1..Len(written) }

(***************************************************************************)
(* Properties.                                                             *)
(***************************************************************************)
\* C1: when convert_pdf_to_images is called with bytes that fail validation,
\* the exception that leaves it is the one validation raised (same kind,
\* same message), and the HTTP response carries that error code and message.
C1_ValidationFailurePropagates ==
    (ConvertCalled /\ validate_pdf_file(pdf_data) # NoErr) =>
        /\ pc = "respond" => err = validate_pdf_file(pdf_data)
        /\ pc = "done" =>
              /\ response.error_code = validate_pdf_file(pdf_data).error_code
              /\ response.message = validate_pdf_file(pdf_data).message

\* C2: the outcome of validate is that of the first failing check in the
\* order empty, size, header: length 0 fails EMPTY_FILE; a non-empty
\* sequence over the limit fails FILE_TOO_LARGE whatever its header; a
\* non-empty sequence within the limit fails INVALID_PDF_FORMAT iff its
\* first 5 bytes are not %PDF-; otherwise validate succeeds; and the call
\* changes nothing but its own outcome.
C2_ValidateFirstFailingCheck ==
    pc = "v_done" =>
        /\ Len(pdf_data) = 0 => err.error_code = "EMPTY_FILE"
        /\ Len(pdf_data) > MAX_FILE_SIZE => err.error_code = "FILE_TOO_LARGE"
        /\ (Len(pdf_data) > 0 /\ Len(pdf_data) <= MAX_FILE_SIZE) =>
              /\ err.error_code = "INVALID_PDF_FORMAT" <=> HeaderDiffers(pdf_data)
              /\ ~HeaderDiffers(pdf_data) => err = NoErr
        /\ err # NoErr => IsDomain(err)
        /\ pdf_data = inp.body
        /\ disk = {}
        /\ engine_log = <<>>
        /\ written = <<>>
        /\ response = NoResponse

\* C2 witness: a sequence over the limit that starts with %PDF- has been
\* validated and failed FILE_TOO_LARGE.
C2_Witness ==
    /\ pc = "v_done"
    /\ Len(pdf_data) > MAX_FILE_SIZE
    /\ ~HeaderDiffers(pdf_data)
    /\ err.error_code = "FILE_TOO_LARGE"

\* C3 as stated: every byte sequence that does not start with %PDF- fails
\* validate with INVALID_PDF_FORMAT.
C3_EveryBadHeaderIsInvalidFormat ==
    (pc = "v_done" /\ HeaderDiffers(pdf_data)) =>
        err.error_code = "INVALID_PDF_FORMAT"

\* C3 amended: every non-empty byte sequence no longer than the configured
\* maximum that does not start with %PDF- fails validate with
\* INVALID_PDF_FORMAT; the empty sequence fails EMPTY_FILE and a sequence
\* over the maximum fails FILE_TOO_LARGE instead.
C3_BadHeaderWithinLimit ==
    (pc = "v_done" /\ HeaderDiffers(pdf_data)) =>
        err.error_code =
            IF Len(pdf_data) = 0 THEN "EMPTY_FILE"
            ELSE IF Len(pdf_data) > MAX_FILE_SIZE THEN "FILE_TOO_LARGE"
            ELSE "INVALID_PDF_FORMAT"

\* C3 witness: a non-empty proper prefix of the header has been validated
\* and failed INVALID_PDF_FORMAT.
C3_Witness ==
    /\ pc = "v_done"
    /\ Len(pdf_data) \in 1..4
    /\ pdf_data = SubSeq(PDF_MAGIC, 1, Len(pdf_data))
    /\ err.error_code = "INVALID_PDF_FORMAT"

\* In every request the engine is invoked at most once, with bytes that
\* pass validation and are the request's bytes, from the step that follows
\* validation, and never once an error is propagating; a request whose
\* bytes fail validation or whose fetch failed ends without an invocation,
\* and a conversion whose bytes pass validation ends with exactly one
\* render invocation.
C4_LogInv ==
    /\ Len(engine_log) <= 1
    /\ \A k \in 1..Len(engine_log) :
          /\ engine_log[k].pdf = pdf_data
          /\ validate_pdf_file(engine_log[k].pdf) = NoErr
          /\ engine_log[k].op = IF inp.endpoint = "info" THEN "inspect" ELSE "render"
    /\ (pc \in {"respond", "done"} /\ validate_pdf_file(pdf_data) # NoErr) =>
          engine_log = <<>>
    /\ (pc \in {"respond", "done"} /\ inp.endpoint = "convert_from_url"
          /\ filename_prefix = <<>>) =>
          engine_log = <<>>
    /\ (pc \in {"base64", "ensure_dir", "save", "return", "respond", "done"}
          /\ ConvertCalled /\ validate_pdf_file(pdf_data) = NoErr) =>
          Len(engine_log) = 1

C4_LogStep ==
    engine_log' # engine_log =>
        /\ pc \in {"render", "info"}
        /\ engine_log = <<>>
        /\ err = NoErr
        /\ validate_pdf_file(pdf_data) = NoErr
        /\ pdf_data' = pdf_data
        /\ Len(engine_log') = 1

\* C4: the engine is invoked at most once per request, only with validated
\* bytes and only from the step after validation (C4_LogInv in every state,
\* C4_LogStep in every step).
C4_EngineOnceAfterValidation == [](C4_LogInv) /\ [][C4_LogStep]_vars

\* C4 witness: a conversion of several pages has been answered after one
\* render invocation.
C4_Witness ==
    /\ ConvertSucceeded
    /\ Len(images) >= 2
    /\ Len(written) = Len(images)
    /\ Len(engine_log) = 1

\* C5: the pages_count of a successful conversion response equals the
\* number of images the engine returned, for every storage_type and
\* image_mode.
C5_PagesCountIsImageCount ==
    ConvertSucceeded => response.pages_count = Len(images)

\* C6: after a successful conversion of N pages, file_urls is present with
\* N URLs iff storage_type is file or both; images holds N base64 strings
\* for image_mode base64 with storage_type base64 or both, N paths for
\* image_mode path with storage_type file or both, and is absent for
\* storage_type file with image_mode base64.
C6_PresenceMatrix ==
    ConvertSucceeded =>
        /\ response.file_urls.present <=> request.storage_type \in {"file", "both"}
        /\ response.file_urls.present =>
              /\ Len(response.file_urls.items) = Len(images)
              /\ \A k \in 1..Len(response.file_urls.items) :
                    response.file_urls.items[k].base = OUTPUT_BASE_URL
        /\ (request.image_mode = "base64" /\ request.storage_type \in {"base64", "both"}) =>
              /\ response.images.present
              /\ Len(response.images.items) = Len(images)
              /\ \A k \in 1..Len(response.images.items) :
                    response.images.items[k].kind = "base64"
        /\ (request.image_mode = "path" /\ request.storage_type \in {"file", "both"}) =>
              /\ response.images.present
              /\ Len(response.images.items) = Len(images)
              /\ \A k \in 1..Len(response.images.items) :
                    response.images.items[k].kind = "path"
        /\ (request.image_mode = "base64" /\ request.storage_type = "file") =>
              ~response.images.present

\* C6 witness: a successful conversion of two pages with storage_type both
\* and image_mode base64.
C6_Witness ==
    /\ ConvertSucceeded
    /\ request.storage_type = "both"
    /\ request.image_mode = "base64"
    /\ Len(images) = 2
    /\ Len(response.images.items) = 2
    /\ Len(response.file_urls.items) = 2

\* C7: after a successful conversion with storage_type base64 and
\* image_mode path, images is absent whatever the number of pages (zero
\* included), file_urls is absent and no file has been written.
C7_PathWithoutFilesIsAbsent ==
    (ConvertSucceeded /\ request.storage_type = "base64" /\ request.image_mode = "path") =>
        /\ ~response.images.present
        /\ ~response.file_urls.present
        /\ written = <<>>
        /\ disk = {}

\* C8: after a successful conversion, entry k of images and entry k of
\* file_urls (each when present) derive from the k-th image the engine
\* returned; both lists have one entry per image, so they have the same
\* length and nothing is reordered, duplicated or dropped.
C8_IndexAligned ==
    ConvertSucceeded =>
        /\ response.images.present =>
              /\ Len(response.images.items) = Len(images)
              /\ \A k \in 1..Len(response.images.items) :
                    LET item == response.images.items[k]
                    IN  IF item.kind = "base64"
                        THEN b64decode(item.text)[2] = images[k]
                        ELSE /\ item.path.name.page = k
                             /\ FileSavePath(item.path, request.fmt) = written[k].path
                             /\ written[k].content[2] = images[k]
        /\ response.file_urls.present =>
              /\ Len(response.file_urls.items) = Len(images)
              /\ \A k \in 1..Len(response.file_urls.items) :
                    LET url == response.file_urls.items[k]
                    IN  /\ url.filename.page = k
                        /\ FileSavePath(PathJoin(OUTPUT_DIR, url.filename), request.fmt)
                              = written[k].path
                        /\ written[k].content[2] = images[k]
        /\ (response.images.present /\ response.file_urls.present) =>
              Len(response.images.items) = Len(response.file_urls.items)
        /\ \A j, k \in 1..Len(images) : j < k => images[j] < images[k]

\* C8 witness: a successful conversion of two pages, starting at page 2,
\* with storage_type both and image_mode path.
C8_Witness ==
    /\ ConvertSucceeded
    /\ request.storage_type = "both"
    /\ request.image_mode = "path"
    /\ images = <<2, 3>>
    /\ Len(response.images.items) = 2
    /\ Len(response.file_urls.items) = 2

\* C9: after a successful conversion with storage_type file or both, for
\* every format, the file named by each returned URL, and each path
\* returned in images in path mode, is a file this call persisted in the
\* output directory; for ppm the persisted files and the returned URLs and
\* paths carry the extension png.
C9_ReturnedNamesArePersisted ==
    (ConvertSucceeded /\ request.storage_type \in {"file", "both"}) =>
        /\ \A k \in 1..Len(response.file_urls.items) :
              /\ \E f \in Persisted :
                    f.path = PathJoin(OUTPUT_DIR, response.file_urls.items[k].filename)
              /\ request.fmt = "ppm" => response.file_urls.items[k].filename.ext = "png"
        /\ request.image_mode = "path" =>
              \A k \in 1..Len(response.images.items) :
                 /\ \E f \in Persisted : f.path = response.images.items[k].path
                 /\ request.fmt = "ppm" => response.images.items[k].path.name.ext = "png"
        /\ request.fmt = "ppm" => \A f \in Persisted : f.path.name.ext = "png"

\* C10: for every page of every request the inline channel and the file
\* channel encode the same page to the same format (ppm as png in both)
\* with the same options (the jpeg options in both exactly when the format
\* is jpeg and options are given), so the base64 payload of page k decodes
\* to the bytes of the file persisted for page k.
C10_ChannelsAgree ==
    /\ \A k \in 1..Len(images) :
          b64decode(Base64Page(images[k], request))
             = save_image_to_file(images[k], NoPath, request.fmt, request.jpegopt).content
    /\ Base64SaveFormat(request) = FileSaveFormat(request.fmt)
    /\ Base64SaveKwargs(request) = FileSaveKwargs(request.fmt, request.jpegopt)
    /\ (request.storage_type = "both" /\ request.image_mode = "base64"
          /\ pc \in {"save", "respond", "done"} /\ base64_images.present) =>
          \A k \in 1..Len(written) :
             /\ b64decode(base64_images.items[k].text) = written[k].content
             /\ \E f \in disk : f = written[k]

\* C10 witness: a successful jpeg conversion of two pages with encoder
\* options, storage_type both and image_mode base64.
C10_Witness ==
    /\ ConvertSucceeded
    /\ request.storage_type = "both"
    /\ request.image_mode = "base64"
    /\ request.fmt = "jpeg"
    /\ request.jpegopt = "quality"
    /\ Len(images) = 2
    /\ Len(written) = 2
    /\ Len(written[1].content) = 3

\* The kind the claim assigns to each class of engine failure.
EngineFailureKind(cls) ==
    CASE cls = "PDFInfoNotInstalledError" -> "POPPLER_NOT_INSTALLED"
      [] cls = "PDFPageCountError"        -> "PDF_CORRUPTED"
      [] cls = "PDFSyntaxError"           -> "PDF_CORRUPTED"
      [] cls = "PDFPopplerTimeoutError"   -> "CONVERSION_FAILED"
      [] OTHER                            -> "CONVERSION_FAILED"

\* C11: when the render invocation of a conversion fails, the domain error
\* has the kind that belongs to the class of the engine failure
\* (not installed -> POPPLER_NOT_INSTALLED, page count and syntax ->
\* PDF_CORRUPTED, timeout and anything else -> CONVERSION_FAILED), no file
\* is written and the response carries no result.
C11_EngineFailureKinds ==
    (/\ pc \in {"respond", "done"}
     /\ inp.endpoint \in ConvertEndpoints
     /\ Len(engine_log) = 1
     /\ engine_log[1].outcome # "ok") =>
        /\ IsDomain(err)
        /\ err.error_code = EngineFailureKind(engine_log[1].outcome)
        /\ written = <<>>
        /\ disk = {}
        /\ ~base64_images.present
        /\ ~file_urls.present
        /\ pc = "done" =>
              /\ response.kind = "ErrorResponse"
              /\ response.error_code = EngineFailureKind(engine_log[1].outcome)
              /\ ~response.images.present
              /\ ~response.file_urls.present

\* C11 witness: a conversion whose render invocation failed to count the
\* pages has been answered PDF_CORRUPTED.
C11_Witness ==
    /\ pc = "done"
    /\ inp.endpoint = "convert"
    /\ Len(engine_log) = 1
    /\ engine_log[1].outcome = "PDFPageCountError"
    /\ response.error_code = "PDF_CORRUPTED"

\* The write of a page failed in the second loop.
SaveFailed ==
    err.message = <<"PDF conversion failed: ", "saving image file failed: ", "OSError">>

\* The output directory could not be created.
DirFailed == err.message = <<"PDF conversion failed: ", "cannot create directory">>

C12_FailureInv ==
    (pc \in {"respond", "done"} /\ (SaveFailed \/ DirFailed)) =>
        /\ request.storage_type \in {"file", "both"}
        /\ IsDomain(err)
        /\ err.error_code = "CONVERSION_FAILED"
        /\ DirFailed => (written = <<>> /\ disk = {})
        /\ SaveFailed =>
              /\ idx < Len(images)
              /\ Len(written) = idx
              /\ \A k \in 1..idx :
                    /\ written[k] \in disk
                    /\ written[k].path.name.page = k
                    /\ written[k].content[2] = images[k]
              /\ \A f \in disk : f.path.name.page <= idx + 1
        /\ pc = "done" =>
              /\ response.kind = "ErrorResponse"
              /\ response.status_code = 400
              /\ response.error_code = "CONVERSION_FAILED"
              /\ ~response.images.present
              /\ ~response.file_urls.present

C12_FailureStep == err # NoErr => (disk' = disk /\ written' = written)

\* C12: if creating the output directory or writing the file of page k
\* fails (storage_type file or both), the conversion fails with
\* CONVERSION_FAILED, the response carries neither inline payloads nor file
\* URLs, no file of a page after k is written, and the files written for
\* pages 1..k-1 stay in the output directory (C12_FailureInv in every
\* state, C12_FailureStep in every step).
C12_WriteFailure == [](C12_FailureInv) /\ [][C12_FailureStep]_vars

\* C12 witness: with storage_type both and inline payloads computed, the
\* write of page 2 failed after page 1 was written, and the error response
\* has been sent.
C12_Witness ==
    /\ pc = "done"
    /\ SaveFailed
    /\ request.storage_type = "both"
    /\ request.image_mode = "base64"
    /\ Len(base64_images.items) = 2
    /\ Len(images) = 2
    /\ idx = 1
    /\ written[1] \in disk

C13_ResponseInv ==
    /\ pc = "done" <=> response # NoResponse
    /\ pc = "done" =>
          /\ response.kind \in {"ConversionResponse", "PDFInfoResponse", "ErrorResponse"}
          /\ response.success <=> response.kind # "ErrorResponse"
          /\ response.success => (err = NoErr /\ response.status_code = 200)
          /\ ~response.success =>
                /\ response.message # <<>>
                /\ response.error_code # ""
                /\ response.status_code \in {400, 500}
          /\ IsDomain(err) =>
                /\ response.status_code = 400
                /\ ~response.success
                /\ response.error_code = err.error_code
                /\ response.message = err.message
          /\ (err # NoErr /\ ~IsDomain(err)) =>
                /\ response.status_code = 500
                /\ ~response.success
                /\ response.error_code = "INTERNAL_ERROR"

C13_ResponseStep == response # NoResponse => response' = response

FetchRejects(url, r) ==
    /\ ~r.ctype_pdf
    /\ ~url.pdf_ext
    /\ HeaderDiffers(r.body)

\* C14: fetch returns the body of a 2xx answer unless the content type does
\* not contain application/pdf, the URL does not end in .pdf and the body
\* does not start with %PDF-; in that case, and on a non-2xx status, a
\* timeout or another transport error, it fails CONVERSION_FAILED (the
\* status code in the message of the non-2xx failure) and with no other
\* kind.
C14_FetchOutcome ==
    pc = "f_done" =>
        /\ (http_reply.outcome = "ok" /\ ~FetchRejects(inp.name, http_reply)) =>
              /\ err = NoErr
              /\ pdf_data = http_reply.body
        /\ (http_reply.outcome # "ok" \/ FetchRejects(inp.name, http_reply)) =>
              /\ IsDomain(err)
              /\ err.error_code = "CONVERSION_FAILED"
              /\ pdf_data = <<>>
        /\ http_reply.outcome = "status" =>
              \E k \in 1..Len(err.message) : err.message[k] = http_reply.status
        /\ err # NoErr => err.error_code = "CONVERSION_FAILED"

\* C14 witness: a 2xx answer with a foreign content type, from a URL that
\* does not end in .pdf, was returned because its body starts with %PDF-.
C14_Witness ==
    /\ pc = "f_done"
    /\ http_reply.outcome = "ok"
    /\ ~http_reply.ctype_pdf
    /\ ~inp.name.pdf_ext
    /\ ~HeaderDiffers(http_reply.body)
    /\ err = NoErr
    /\ pdf_data = http_reply.body

\* C15: every file a conversion persists is a direct child of the output
\* directory, whatever prefix the request produces: nothing is written
\* outside it and no subdirectory is created under it.
C15_FlatOutputDir ==
    \A f \in disk : f.path.parent = OUTPUT_DIR

\* C17: whenever a successful conversion response contains file_urls, the
\* output directory is served under /files, for every default storage type
\* fixed at startup and every storage_type of the request.
C17_UrlsAreServed ==
    (ConvertSucceeded /\ response.file_urls.present) => static_mounted

\* C16 as stated: across any interleaving of concurrent conversions no two
\* page writes target the same file path.
C16_NoTwoWritesSamePath ==
    \A e1 \in conv_log, e2 \in conv_log :
        e1 # e2 => e1.path # e2.path

\* C16, amended: two page writes target the same file path only when they
\* belong to different conversions and were given the same page number, the
\* same timestamp second and the same suffix; pages of one conversion, and
\* writes that differ in second or suffix, never share a path, and every
\* file written to a path no later write took is still on disk.
C16_CollisionNeedsSameSuffix ==
    /\ \A e1 \in conv_log, e2 \in conv_log :
          (e1 # e2 /\ e1.path = e2.path) =>
              /\ e1.worker # e2.worker
              /\ e1.page = e2.page
              /\ e1.ts = e2.ts
              /\ e1.uid = e2.uid
              /\ conv[e1.worker].prefix = conv[e2.worker].prefix
    /\ \A e1 \in conv_log :
          (\A e2 \in conv_log : e2.path = e1.path => e2 = e1) =>
              [path |-> e1.path, content |-> e1.content] \in disk

\* C16 witness: two conversions with the same prefix and format wrote the
\* same page in the same second with different suffixes, and both files
\* are on disk.
C16_Witness ==
    \E e1 \in conv_log, e2 \in conv_log :
        /\ e1.worker # e2.worker
        /\ conv[e1.worker].prefix = conv[e2.worker].prefix
        /\ conv[e1.worker].fmt = conv[e2.worker].fmt
        /\ e1.page = e2.page
        /\ e1.ts = e2.ts
        /\ e1.uid # e2.uid
        /\ e1.path # e2.path
        /\ [path |-> e1.path, content |-> e1.content] \in disk
        /\ [path |-> e2.path, content |-> e2.content] \in disk

====
